---- MODULE Spec2Model ----
(***************************************************************************)
(* Model of src/agent.py: main() drives an external browsing agent once,  *)
(* validates its final JSON against the Listings schema, exports the      *)
(* records to a spreadsheet and closes the browser.                       *)
(*                                                                         *)
(* main() is one sequential coroutine.  It is cut into one action per     *)
(* external call (constructor, agent.run, validation, export, close);     *)
(* every external call either returns or raises, and what it returns is   *)
(* drawn from a bounded set.  print() is taken not to raise.              *)
(***************************************************************************)
EXTENDS Naturals, Sequences, FiniteSets

VARIABLES
    pc,                 \* position of main()
    openai_api_key,     \* os.getenv("OPENAI_API_KEY")
    google_api_key,     \* os.getenv("GEMINI_API_KEY")
    primary_exists,     \* os.path.exists(chrome_path) on this machine
    alt_exists,         \* os.path.exists(chrome_path_alt) on this machine
    chrome_path,        \* local chrome_path
    browser,            \* the browser-session handle: "none", "open", "closed"
    browser_binary_path,\* BrowserConfig.browser_binary_path of the handle
    final_data_json,    \* result.final_result()
    scraped_listings,   \* local list scraped_listings
    disk,               \* content of edisonba_listings.xlsx
    calls,              \* external calls attempted so far, in order
    printed,            \* console output so far, in order
    raised,             \* the exceptions raised so far, in order
    escaped             \* the exception that left main(), or NoExc

vars == <<pc, openai_api_key, google_api_key, primary_exists, alt_exists,
          chrome_path, browser, browser_binary_path, final_data_json,
          scraped_listings, disk, calls, printed, raised, escaped>>

-----------------------------------------------------------------------------
(* Bounds and value domains *)

MaxListings == 2

NoneVal == "None"           \* Python None
Absent  == "<absent>"       \* a key missing from a JSON object
NoExc   == "<no exception>"

PrimaryPath == "C:\\Program Files\\Google\\Chrome\\Application\\chrome.exe"
AltPath     == "C:\\Program Files (x86)\\Google\\Chrome\\Application\\chrome.exe"

EnvValues == {NoneVal, "", "key"}

\* JSON objects the agent may put in the "listings" array: any of the three
\* optional keys may be missing; an object that lacks a required key carries
\* all three.
RawListings ==
    {r \in [title : {Absent, "A", "B"}, state : {Absent, "CA"},
            revenue : {Absent, "100"}, ebitda : {Absent, "20"},
            asking_price : {Absent, "300"}] :
        (r.title = Absent \/ r.state = Absent)
            => (r.revenue # Absent /\ r.ebitda # Absent /\ r.asking_price # Absent)}

RawSeqs == UNION {[1..n -> RawListings] : n \in 0..MaxListings}

\* What result.final_result() may be.
Payloads ==
    {[kind |-> k, listings |-> <<>>] :
        k \in {"None", "empty_str", "invalid_json", "no_listings_key"}}
    \cup {[kind |-> "object", listings |-> s] : s \in RawSeqs}

PriorFile == [state |-> "prior", header |-> <<>>, rows |-> <<>>]
PartialFile == [state |-> "partial", header |-> <<>>, rows |-> <<>>]

Out(m, a) == [msg |-> m, arg |-> a]

-----------------------------------------------------------------------------
(* Pure helpers *)

\* a check against None alone: an empty key passes
TruthyNotNone(v) == v # NoneVal

\* Python truthiness of an Optional[str]
Truthy(v) == v \notin {NoneVal, ""}

\* Truthiness of final_data_json (None and "" are falsy)
HasFinalData(p) == p.kind \notin {"None", "empty_str"}

\* the probes in the other order: the alternative path wins when both exist
ChoosePathAltFirst(p, a) ==
    IF a THEN AltPath
    ELSE IF p THEN PrimaryPath
    ELSE NoneVal

\* lines 59-70
ChoosePath(p, a) ==
    IF p THEN PrimaryPath
    ELSE IF a THEN AltPath
    ELSE NoneVal

ProbeOutput(p, a) ==
    IF p \/ a THEN << Out("Using Chrome path", ChoosePath(p, a)) >>
    ELSE << Out("Warning: Chrome executable not found", ""),
            Out("Attempting to run without specifying browser path", "") >>

\* state declared Optional: only the title is required
RequiredTitleOnly(r) == r.title # Absent

\* class Listing: title and state are required
RequiredPresent(r) == r.title # Absent /\ r.state # Absent

\* Optional[float] = None
OptionalField(v) == IF v = Absent THEN NoneVal ELSE v

ParseListing(r) ==
    [title |-> r.title, state |-> r.state,
     revenue |-> OptionalField(r.revenue),
     ebitda |-> OptionalField(r.ebitda),
     asking_price |-> OptionalField(r.asking_price)]

\* Listings.model_validate_json: the whole document or a ValidationError
ModelValidateJson(p) ==
    IF p.kind = "object"
       /\ \A i \in 1..Len(p.listings) : RequiredPresent(p.listings[i])
    THEN [ok |-> TRUE,
          listings |-> [i \in 1..Len(p.listings) |-> ParseListing(p.listings[i])]]
    ELSE [ok |-> FALSE, listings |-> <<>>]

OrNA(v) == IF v # NoneVal THEN v ELSE "N/A"

PrintListing(l) ==
    << Out("Title", l.title), Out("State", l.state),
       Out("Revenue", OrNA(l.revenue)), Out("EBITDA", OrNA(l.ebitda)),
       Out("Asking Price", OrNA(l.asking_price)), Out("---", "") >>

RECURSIVE PrintListings(_)
PrintListings(ls) ==
    IF ls = <<>> THEN <<>>
    ELSE PrintListing(Head(ls)) \o PrintListings(Tail(ls))

\* the loop inserting at the front instead of appending
AppendAllReversed(acc, ls) ==
    [i \in 1..Len(ls) |-> ls[Len(ls) + 1 - i]] \o acc

\* the for loop of lines 133-135
AppendAll(acc, ls) == acc \o ls

\* listing.model_dump(): the fields in declaration order
ModelDump(l) ==
    << <<"title", l.title>>, <<"state", l.state>>, <<"revenue", l.revenue>>,
       <<"ebitda", l.ebitda>>, <<"asking_price", l.asking_price>> >>

Cell(v) == IF v = NoneVal THEN "" ELSE v

\* pd.DataFrame(list of dicts).to_excel(name, index=False): the columns are
\* the keys of the dicts, None is written as an empty cell
ToExcel(dumps) ==
    [state |-> "written",
     header |-> IF dumps = <<>> THEN <<>>
                ELSE [j \in 1..Len(dumps[1]) |-> dumps[1][j][1]],
     rows |-> [i \in 1..Len(dumps) |->
                 [j \in 1..Len(dumps[i]) |-> Cell(dumps[i][j][2])]]]

\* the outer handler printing the message alone
TraceMessageOnly(e) ==
    << Out("--- An unexpected error occurred during agent execution ---", ""),
       Out("Error Message", e) >>

\* lines 179-184
FullTrace(e) ==
    << Out("--- An unexpected error occurred during agent execution ---", ""),
       Out("Error Type", e), Out("Error Message", e),
       Out("Traceback", e), Out("----------", "") >>

Count(s, x) == Cardinality({i \in 1..Len(s) : s[i] = x})
Called(x) == \E i \in 1..Len(calls) : calls[i] = x
Printed(m) == \E i \in 1..Len(printed) : printed[i].msg = m
PrintedWith(m, a) == \E i \in 1..Len(printed) : printed[i] = Out(m, a)

-----------------------------------------------------------------------------
Init ==
    /\ pc = "start"
    /\ openai_api_key \in EnvValues
    /\ google_api_key \in EnvValues
    /\ primary_exists \in BOOLEAN
    /\ alt_exists \in BOOLEAN
    /\ chrome_path = NoneVal
    /\ browser = "none"
    /\ browser_binary_path = NoneVal
    /\ final_data_json = [kind |-> "None", listings |-> <<>>]
    /\ scraped_listings = <<>>
    /\ disk = PriorFile
    /\ calls = <<>>
    /\ printed = <<>>
    /\ raised = <<>>
    /\ escaped = NoExc

-----------------------------------------------------------------------------
(* main(), lines 41-193 *)

\* lines 45-53: the configuration check
CheckConfig ==
    /\ pc = "start"
    /\ IF ~Truthy(openai_api_key)
       THEN /\ printed' = Append(printed,
                 Out("Error: OPENAI_API_KEY environment variable not set.", ""))
            /\ pc' = "done"
       ELSE IF ~Truthy(google_api_key)
       THEN /\ printed' = Append(printed,
                 Out("Error: GEMINI_API_KEY environment variable not set.", ""))
            /\ pc' = "done"
       ELSE /\ printed' = printed
            /\ pc' = "controller"
    /\ UNCHANGED <<openai_api_key, google_api_key, primary_exists, alt_exists,
                   chrome_path, browser, browser_binary_path, final_data_json,
                   scraped_listings, disk, calls, raised, escaped>>

\* line 56: Controller(output_model=Listings), outside the try block
CreateController ==
    /\ pc = "controller"
    /\ calls' = Append(calls, "Controller")
    /\ \/ pc' = "probe" /\ UNCHANGED <<escaped, raised>>
       \/ pc' = "done" /\ escaped' = "ControllerError" /\ raised' = Append(raised, "ControllerError")
    /\ UNCHANGED <<openai_api_key, google_api_key, primary_exists, alt_exists,
                   chrome_path, browser, browser_binary_path, final_data_json,
                   scraped_listings, disk, printed>>

\* lines 59-70: probing for the browser binary
ProbeChrome ==
    /\ pc = "probe"
    /\ chrome_path' = ChoosePath(primary_exists, alt_exists)
    /\ printed' = printed \o ProbeOutput(primary_exists, alt_exists)
    /\ pc' = "browser"
    /\ UNCHANGED <<openai_api_key, google_api_key, primary_exists, alt_exists,
                   browser, browser_binary_path, final_data_json,
                   scraped_listings, disk, calls, raised, escaped>>

\* lines 72-79: Browser(config=BrowserConfig(...)), outside the try block
CreateBrowser ==
    /\ pc = "browser"
    /\ calls' = Append(calls, "Browser")
    /\ \/ /\ browser' = "open"
          /\ browser_binary_path' = chrome_path
          /\ pc' = "llm"
          /\ UNCHANGED <<escaped, raised>>
       \/ /\ pc' = "done"
          /\ escaped' = "BrowserError" /\ raised' = Append(raised, "BrowserError")
          /\ UNCHANGED <<browser, browser_binary_path>>
    /\ UNCHANGED <<openai_api_key, google_api_key, primary_exists, alt_exists,
                   chrome_path, final_data_json, scraped_listings, disk, printed>>

\* lines 86-99: ChatGoogleGenerativeAI(...), outside the try block, then
\* scraped_listings = []
CreateLLM ==
    /\ pc = "llm"
    /\ calls' = Append(calls, "ChatGoogleGenerativeAI")
    /\ \/ /\ scraped_listings' = <<>>
          /\ pc' = "agent"
          /\ UNCHANGED <<escaped, raised>>
       \/ /\ pc' = "done"
          /\ escaped' = "LLMError" /\ raised' = Append(raised, "LLMError")
          /\ UNCHANGED scraped_listings
    /\ UNCHANGED <<openai_api_key, google_api_key, primary_exists, alt_exists,
                   chrome_path, browser, browser_binary_path, final_data_json,
                   disk, printed>>

\* the outer handler sending the run back to agent.run
OuterExceptRetry(out, e) ==
    /\ raised' = Append(raised, e)
    /\ printed' = out \o FullTrace(e)
    /\ pc' = "run"

\* lines 177-184: the handler of the outer try, then on to finally
OuterExcept(out, e) ==
    /\ raised' = Append(raised, e)
    /\ printed' = out \o FullTrace(e)
    /\ pc' = "cleanup"

\* lines 100-115: Agent(...), the first statement inside the try block
CreateAgent ==
    /\ pc = "agent"
    /\ calls' = Append(calls, "Agent")
    /\ \/ /\ printed' = Append(printed, Out("Initializing scraping agent...", ""))
          /\ pc' = "run"
          /\ raised' = raised
       \/ OuterExcept(Append(printed, Out("Initializing scraping agent...", "")),
                      "AgentInitError")
    /\ UNCHANGED <<openai_api_key, google_api_key, primary_exists, alt_exists,
                   chrome_path, browser, browser_binary_path, final_data_json,
                   scraped_listings, disk, escaped>>

\* lines 117-122: await agent.run(max_steps=5); result.final_result()
RunAgent ==
    /\ pc = "run"
    /\ calls' = Append(calls, "agent.run")
    /\ \/ \E p \in Payloads :
            /\ final_data_json' = p
            /\ printed' = printed \o << Out("Running agent to scrape listings", ""),
                                        Out("Agent finished running.", "") >>
            /\ pc' = "process"
            /\ raised' = raised
       \/ /\ OuterExcept(Append(printed, Out("Running agent to scrape listings", "")),
                         "AgentRunError")
          /\ UNCHANGED final_data_json
    /\ UNCHANGED <<openai_api_key, google_api_key, primary_exists, alt_exists,
                   chrome_path, browser, browser_binary_path,
                   scraped_listings, disk, escaped>>

\* lines 128-142: the document validated
OnValidated(ls) ==
    /\ scraped_listings' = AppendAll(scraped_listings, ls)
    /\ printed' = printed \o << Out("Parsing scraped data...", ""),
                                Out("Parsed Listings:", "") >>
                          \o PrintListings(ls)
                          \o << Out("Total listings scraped", "") >>

\* record-by-record validation: the records that are valid are kept
OnValidationErrorKeepValid(p) ==
    /\ scraped_listings' =
          scraped_listings \o
          [i \in 1..Len(SelectSeq(p.listings, RequiredPresent)) |->
              ParseListing(SelectSeq(p.listings, RequiredPresent)[i])]
    /\ printed' = printed \o << Out("Parsing scraped data...", ""),
                                Out("Error: Failed to validate the scraped data against the Listings model.", ""),
                                Out("Validation Errors", "ValidationError"),
                                Out("Raw JSON data received from agent:", p.kind),
                                Out("Total listings scraped", "") >>

\* lines 144-148: except ValidationError
OnValidationError(p) ==
    /\ scraped_listings' = scraped_listings
    /\ printed' = printed \o << Out("Parsing scraped data...", ""),
                                Out("Error: Failed to validate the scraped data against the Listings model.", ""),
                                Out("Validation Errors", "ValidationError"),
                                Out("Raw JSON data received from agent:", p.kind),
                                Out("Total listings scraped", "") >>

\* lines 124-159.  The handler of lines 149-152 is not modelled: for a str
\* payload model_validate_json raises nothing but ValidationError.
ProcessResults ==
    /\ pc = "process"
    /\ IF HasFinalData(final_data_json)
       THEN /\ calls' = Append(calls, "model_validate_json")
            /\ IF ModelValidateJson(final_data_json).ok
               THEN OnValidated(ModelValidateJson(final_data_json).listings)
               ELSE OnValidationError(final_data_json)
       ELSE /\ calls' = calls
            /\ scraped_listings' = scraped_listings
            /\ printed' = printed \o << Out("Agent did not return any final data.", ""),
                                        Out("Total listings scraped", "") >>
    /\ pc' = "export"
    /\ UNCHANGED <<openai_api_key, google_api_key, primary_exists, alt_exists,
                   chrome_path, browser, browser_binary_path, final_data_json,
                   disk, raised, escaped>>

\* the export without its guard
ShouldExportAlways(s) == TRUE

\* line 162: if scraped_listings:
ShouldExport(s) == s # <<>>

\* lines 170-171: the export's own handler
ExportExceptOutput(e) == << Out("Error saving listings to Excel", e) >>

\* lines 162-175
SaveExcel ==
    /\ pc = "export"
    /\ IF ShouldExport(scraped_listings)
       THEN \/ /\ calls' = calls \o <<"DataFrame", "to_excel">>
               /\ disk' = ToExcel([i \in 1..Len(scraped_listings) |->
                                     ModelDump(scraped_listings[i])])
               /\ printed' = printed \o << Out("Saving listings to Excel...", ""),
                                           Out("Listings successfully saved to", "edisonba_listings.xlsx") >>
               /\ raised' = raised
            \/ /\ calls' = Append(calls, "DataFrame")
               /\ disk' = disk
               /\ printed' = printed \o << Out("Saving listings to Excel...", "") >>
                                     \o ExportExceptOutput("DataFrameError")
               /\ raised' = Append(raised, "DataFrameError")
            \/ /\ calls' = calls \o <<"DataFrame", "to_excel">>
               /\ disk' \in {disk, PartialFile}
               /\ printed' = printed \o << Out("Saving listings to Excel...", "") >>
                                     \o ExportExceptOutput("ExcelWriteError")
               /\ raised' = Append(raised, "ExcelWriteError")
       ELSE /\ calls' = calls
            /\ disk' = disk
            /\ printed' = Append(printed,
                 Out("No listings were scraped, skipping Excel save.", ""))
            /\ raised' = raised
    /\ pc' = "cleanup"
    /\ UNCHANGED <<openai_api_key, google_api_key, primary_exists, alt_exists,
                   chrome_path, browser, browser_binary_path, final_data_json,
                   scraped_listings, escaped>>

\* finally without the inner try: a failing close leaves main()
CleanupUncaught ==
    /\ pc = "cleanup"
    /\ calls' = Append(calls, "browser.close")
    /\ \/ /\ browser' = "closed"
          /\ printed' = printed \o << Out("Closing browser...", ""),
                                      Out("Browser closed successfully.", "") >>
          /\ UNCHANGED <<raised, escaped>>
       \/ /\ browser' = browser
          /\ printed' = Append(printed, Out("Closing browser...", ""))
          /\ raised' = Append(raised, "CloseError")
          /\ escaped' = "CloseError"
    /\ pc' = "done"
    /\ UNCHANGED <<openai_api_key, google_api_key, primary_exists, alt_exists,
                   chrome_path, browser_binary_path, final_data_json,
                   scraped_listings, disk>>

\* lines 186-193: finally
Cleanup ==
    /\ pc = "cleanup"
    /\ calls' = Append(calls, "browser.close")
    /\ \/ /\ browser' = "closed"
          /\ printed' = printed \o << Out("Closing browser...", ""),
                                      Out("Browser closed successfully.", "") >>
          /\ raised' = raised
       \/ /\ browser' = browser
          /\ printed' = printed \o << Out("Closing browser...", ""),
                                      Out("Error closing browser", "CloseError") >>
          /\ raised' = Append(raised, "CloseError")
    /\ escaped' = escaped
    /\ pc' = "done"
    /\ UNCHANGED <<openai_api_key, google_api_key, primary_exists, alt_exists,
                   chrome_path, browser_binary_path, final_data_json,
                   scraped_listings, disk>>

Next ==
    \/ CheckConfig
    \/ CreateController
    \/ ProbeChrome
    \/ CreateBrowser
    \/ CreateLLM
    \/ CreateAgent
    \/ RunAgent
    \/ ProcessResults
    \/ SaveExcel
    \/ Cleanup

Spec == Init /\ [][Next]_vars

-----------------------------------------------------------------------------
(* Properties *)

KeyMissing(k) == k = NoneVal \/ k = ""
ConfigMissing == KeyMissing(openai_api_key) \/ KeyMissing(google_api_key)
Raised(e) == \E i \in 1..Len(raised) : raised[i] = e
AfterProcessing == pc \in {"export", "cleanup", "done"} /\ Called("agent.run")
                   /\ ~Raised("AgentRunError")
HasRequired(r) == r.title # Absent /\ r.state # Absent
SchemaValid(p) ==
    p.kind = "object" /\ \A i \in 1..Len(p.listings) : HasRequired(p.listings[i])
ExpectedValue(v) == IF v = Absent THEN NoneVal ELSE v
ExpectedCell(v) == IF v = Absent THEN "" ELSE v
ValidationErrorMsg ==
    "Error: Failed to validate the scraped data against the Listings model."
UnexpectedMsg == "--- An unexpected error occurred during agent execution ---"

\* C1: when OPENAI_API_KEY or GEMINI_API_KEY is unset or empty, main() prints
\* the error and returns: no Controller, Browser, LLM client or Agent is
\* created, agent.run and browser.close are never called, the spreadsheet is
\* not written.
C1_MissingConfigAborts ==
    ConfigMissing =>
        /\ pc \in {"start", "done"}
        /\ calls = <<>>
        /\ browser = "none"
        /\ disk = PriorFile
        /\ escaped = NoExc
        /\ pc = "done" =>
             /\ Len(printed) = 1
             /\ printed[1].msg =
                  IF KeyMissing(openai_api_key)
                  THEN "Error: OPENAI_API_KEY environment variable not set."
                  ELSE "Error: GEMINI_API_KEY environment variable not set."

C1_Witness ==
    /\ pc = "done"
    /\ openai_api_key = "key"
    /\ google_api_key = ""
    /\ Printed("Error: GEMINI_API_KEY environment variable not set.")

\* C2: in every finished run in which the browser handle was created,
\* browser.close() was attempted exactly once, whatever the later steps did.
C2_CloseAttemptedExactlyOnce ==
    /\ Count(calls, "browser.close") <= 1
    /\ (pc = "done" /\ browser # "none") => Count(calls, "browser.close") = 1

\* C3 as stated: every finished run, the missing-configuration ones included,
\* went through the cleanup step, and no exception left main() from it.
C3_EveryPathEndsInCleanup ==
    pc = "done" =>
        /\ Called("browser.close")
        /\ Printed("Closing browser...")
        /\ escaped # "CloseError"

\* C3 amended: a finished run went through the cleanup step exactly when it had
\* entered the try block (Agent(...) is its first call); cleanup is then the
\* last call, and a failing close is caught and printed and leaves nothing to
\* escape.  The missing-configuration runs return with no call made, and a
\* run whose Controller, Browser or LLM constructor raises leaves main() with
\* that exception, both without cleanup.  No run stops inside the try block.
C3_PathsThroughTryEndInCleanup ==
    /\ pc \in {"agent", "run", "process", "export", "cleanup"} => ENABLED Next
    /\ pc = "done" =>
        /\ Called("Agent") <=> Called("browser.close")
        /\ Called("Agent") =>
             /\ calls[Len(calls)] = "browser.close"
             /\ Count(calls, "browser.close") = 1
             /\ Printed("Closing browser...")
             /\ escaped = NoExc
             /\ \/ browser = "closed" /\ Printed("Browser closed successfully.")
                                      /\ ~Raised("CloseError")
                \/ browser = "open" /\ Raised("CloseError")
                                    /\ PrintedWith("Error closing browser", "CloseError")
        /\ ConfigMissing => calls = <<>> /\ escaped = NoExc
        /\ ~Called("Agent") /\ ~ConfigMissing =>
             /\ escaped \in {"ControllerError", "BrowserError", "LLMError"}
             /\ raised = <<escaped>>

C3_Witness ==
    /\ pc = "done"
    /\ Raised("AgentRunError")
    /\ Raised("CloseError")
    /\ PrintedWith("Error closing browser", "CloseError")

\* C4: when the final result fails validation, the validation error and the
\* raw payload are printed, nothing is added to scraped_listings (valid
\* records included), the export is skipped, the outer handler is not entered
\* and the run goes on to cleanup.
C4_ValidationFailureKeepsNothing ==
    (AfterProcessing /\ final_data_json.kind \notin {"None", "empty_str"}
        /\ ~SchemaValid(final_data_json)) =>
        /\ Printed(ValidationErrorMsg)
        /\ PrintedWith("Validation Errors", "ValidationError")
        /\ Printed("Raw JSON data received from agent:")
        /\ scraped_listings = <<>>
        /\ ~Called("DataFrame") /\ ~Called("to_excel")
        /\ disk = PriorFile
        /\ ~Printed(UnexpectedMsg)
        /\ ~Raised("AgentInitError") /\ ~Raised("AgentRunError")
        /\ escaped = NoExc
        /\ pc \in {"cleanup", "done"} =>
             Printed("No listings were scraped, skipping Excel save.")
        /\ pc = "done" => Called("browser.close")

C4_Witness ==
    /\ pc = "done"
    /\ final_data_json.kind = "object"
    /\ Len(final_data_json.listings) = 2
    /\ HasRequired(final_data_json.listings[1])
    /\ ~HasRequired(final_data_json.listings[2])
    /\ Printed(ValidationErrorMsg)
    /\ scraped_listings = <<>>

\* C5 as stated: every exception raised by the agent or by the export is
\* logged with its type, its message and a traceback.
C5_AgentAndExportLoggedWithTrace ==
    \A e \in {"AgentInitError", "AgentRunError", "DataFrameError", "ExcelWriteError"} :
        Raised(e) =>
            /\ PrintedWith("Error Type", e)
            /\ PrintedWith("Error Message", e)
            /\ PrintedWith("Traceback", e)

\* C5 amended: an exception raised by Agent(...) or agent.run is logged by the
\* outer handler with its type, its message and a traceback; an exception
\* raised by the export is caught by the export's own handler, which prints the
\* message alone (no type, no traceback), and the run goes on to cleanup.
C5_AgentTraceExportMessageOnly ==
    /\ \A e \in {"AgentInitError", "AgentRunError"} :
         Raised(e) =>
            /\ Printed(UnexpectedMsg)
            /\ PrintedWith("Error Type", e)
            /\ PrintedWith("Error Message", e)
            /\ PrintedWith("Traceback", e)
            /\ pc \in {"cleanup", "done"}
    /\ \A e \in {"DataFrameError", "ExcelWriteError"} :
         Raised(e) =>
            /\ PrintedWith("Error saving listings to Excel", e)
            /\ ~Printed("Error Type") /\ ~Printed("Traceback")
            /\ ~Printed(UnexpectedMsg)
            /\ pc \in {"cleanup", "done"}

C5_Witness ==
    /\ pc = "done"
    /\ Raised("ExcelWriteError")
    /\ PrintedWith("Error saving listings to Excel", "ExcelWriteError")

\* C6: when the payload validates with N >= 1 listings, scraped_listings holds
\* exactly its N records in payload order, and the sheet the export writes has
\* the columns title, state, revenue, ebitda, asking_price and one row per
\* record in the same order.
C6_RecordsAndRowsInPayloadOrder ==
    (AfterProcessing /\ SchemaValid(final_data_json)
        /\ Len(final_data_json.listings) >= 1) =>
        LET raw == final_data_json.listings IN
        /\ Len(scraped_listings) = Len(raw)
        /\ \A i \in 1..Len(raw) :
             /\ scraped_listings[i].title = raw[i].title
             /\ scraped_listings[i].state = raw[i].state
             /\ scraped_listings[i].revenue = ExpectedValue(raw[i].revenue)
             /\ scraped_listings[i].ebitda = ExpectedValue(raw[i].ebitda)
             /\ scraped_listings[i].asking_price = ExpectedValue(raw[i].asking_price)
        /\ disk.state = "written" =>
             /\ disk.header = <<"title", "state", "revenue", "ebitda", "asking_price">>
             /\ Len(disk.rows) = Len(raw)
             /\ \A i \in 1..Len(raw) :
                  disk.rows[i] = << raw[i].title, raw[i].state,
                                    ExpectedCell(raw[i].revenue),
                                    ExpectedCell(raw[i].ebitda),
                                    ExpectedCell(raw[i].asking_price) >>
        /\ (pc \in {"cleanup", "done"} /\ ~Raised("DataFrameError")
              /\ ~Raised("ExcelWriteError")) => disk.state = "written"

C6_Witness ==
    /\ pc = "done"
    /\ disk.state = "written"
    /\ Len(disk.rows) = 2
    /\ disk.rows[1][1] = "B"
    /\ disk.rows[2][1] = "A"
    /\ disk.rows[1][4] = ""
    /\ disk.rows[2][3] = "100"

StepRank(c) ==
    CASE c = "Controller" -> 1
      [] c = "Browser" -> 2
      [] c = "ChatGoogleGenerativeAI" -> 3
      [] c = "Agent" -> 4
      [] c = "agent.run" -> 5
      [] c = "model_validate_json" -> 6
      [] c = "DataFrame" -> 7
      [] c = "to_excel" -> 8
      [] c = "browser.close" -> 9

\* C7: the configuration check, agent.run, validation and export happen in
\* that order and at most once each; nothing is executed again after a
\* failure, which leaves only console output and cleanup.
C7_StepsInOrderAtMostOnce ==
    /\ calls # <<>> => ~ConfigMissing
    /\ \A i, j \in 1..Len(calls) : i < j => StepRank(calls[i]) < StepRank(calls[j])
    /\ \A c \in {"agent.run", "model_validate_json", "to_excel"} : Count(calls, c) <= 1
    /\ (Raised("AgentInitError") \/ Raised("AgentRunError")) =>
         /\ ~Called("model_validate_json") /\ ~Called("DataFrame") /\ ~Called("to_excel")
         /\ pc \in {"cleanup", "done"}
    /\ Raised("AgentInitError") => ~Called("agent.run")
    /\ Printed(ValidationErrorMsg) => ~Called("DataFrame") /\ ~Called("to_excel")
    /\ (Raised("DataFrameError") \/ Raised("ExcelWriteError")) =>
         pc \in {"cleanup", "done"}
    /\ Len(raised) <= 2

C7_Witness ==
    /\ pc = "done"
    /\ calls = << "Controller", "Browser", "ChatGoogleGenerativeAI", "Agent",
                  "agent.run", "model_validate_json", "DataFrame", "to_excel",
                  "browser.close" >>
    /\ Raised("ExcelWriteError")

\* C8: a payload is accepted or rejected as a whole: it is rejected when any
\* record lacks title or state, and accepted when every record has both, also
\* when revenue, ebitda or asking_price are omitted; an omitted field is None
\* in the record and printed as N/A.
C8_WholePayloadAcceptedOrRejected ==
    (AfterProcessing /\ final_data_json.kind = "object") =>
        LET raw == final_data_json.listings
            accepted == Printed("Parsed Listings:") /\ ~Printed(ValidationErrorMsg)
            rejected == Printed(ValidationErrorMsg) /\ ~Printed("Parsed Listings:")
                        /\ scraped_listings = <<>>
        IN
        /\ (\E i \in 1..Len(raw) : raw[i].title = Absent \/ raw[i].state = Absent)
              => rejected
        /\ (\A i \in 1..Len(raw) : raw[i].title # Absent /\ raw[i].state # Absent)
              => /\ accepted
                 /\ Len(scraped_listings) = Len(raw)
                 /\ \A i \in 1..Len(raw) :
                      /\ raw[i].revenue = Absent <=> scraped_listings[i].revenue = NoneVal
                      /\ raw[i].ebitda = Absent <=> scraped_listings[i].ebitda = NoneVal
                      /\ raw[i].asking_price = Absent
                           <=> scraped_listings[i].asking_price = NoneVal
                 /\ (\E i \in 1..Len(raw) : raw[i].revenue = Absent)
                      <=> PrintedWith("Revenue", "N/A")
                 /\ (\E i \in 1..Len(raw) : raw[i].ebitda = Absent)
                      <=> PrintedWith("EBITDA", "N/A")
                 /\ (\E i \in 1..Len(raw) : raw[i].asking_price = Absent)
                      <=> PrintedWith("Asking Price", "N/A")

C8_Witness ==
    /\ pc = "done"
    /\ final_data_json.kind = "object"
    /\ Len(final_data_json.listings) = 2
    /\ final_data_json.listings[1].revenue = Absent
    /\ final_data_json.listings[1].ebitda = Absent
    /\ final_data_json.listings[1].asking_price = Absent
    /\ final_data_json.listings[2].ebitda = Absent
    /\ Len(scraped_listings) = 2
    /\ scraped_listings[1].revenue = NoneVal
    /\ PrintedWith("Asking Price", "N/A")

ProbeDone == Printed("Using Chrome path") \/ Printed("Warning: Chrome executable not found")

\* C9: the binary path is the primary path if it exists, else the alternative
\* path if it exists, else None; the alternative is never chosen when the
\* primary exists; in all three cases the run goes on to create the browser
\* with that path.
C9_BrowserPathProbedInOrder ==
    /\ pc \in {"start", "controller", "probe"} => ~ProbeDone
    /\ ProbeDone =>
        /\ primary_exists => chrome_path = PrimaryPath
        /\ (~primary_exists /\ alt_exists) => chrome_path = AltPath
        /\ (~primary_exists /\ ~alt_exists) => chrome_path = NoneVal
        /\ Called("Browser") \/ (pc = "browser" /\ ENABLED CreateBrowser)
        /\ browser # "none" => browser_binary_path = chrome_path
        /\ chrome_path # NoneVal <=> PrintedWith("Using Chrome path", chrome_path)

C9_Witness ==
    /\ browser = "open"
    /\ primary_exists /\ alt_exists
    /\ browser_binary_path = PrimaryPath

\* C10: the spreadsheet is written, or a write of it attempted, only in a run
\* whose agent returned a non-empty final result that validated and held at
\* least one listing; in every other run the file stays as it was.
C10_WriteOnlyAfterValidatedListings ==
    (Called("DataFrame") \/ Called("to_excel") \/ disk # PriorFile) =>
        /\ Called("agent.run")
        /\ ~Raised("AgentInitError") /\ ~Raised("AgentRunError")
        /\ final_data_json.kind = "object"
        /\ Len(final_data_json.listings) >= 1
        /\ \A i \in 1..Len(final_data_json.listings) :
             HasRequired(final_data_json.listings[i])
        /\ ~Printed(ValidationErrorMsg)

C10_Witness ==
    /\ pc = "done"
    /\ final_data_json.kind = "object"
    /\ final_data_json.listings = <<>>
    /\ Printed("Parsed Listings:")
    /\ Printed("No listings were scraped, skipping Excel save.")
    /\ ~Called("to_excel")
    /\ disk = PriorFile

====
